---- MODULE Spec2Model ----
(***************************************************************************)
(* Model of the SyncOne2 session class of Python/Sync_One2.py.             *)
(*                                                                         *)
(* A reply line is a sequence of one-character strings, so that the        *)
(* substring test ("ERR" in reply), str.split(","), int() and float() are  *)
(* computed character by character, the way the Python code computes them. *)
(* The empty sequence is what read_until returns on a read timeout (or for *)
(* a bare terminator), after __parse_line stripped the carriage return.    *)
(***************************************************************************)
EXTENDS Integers, Sequences, FiniteSets, TLC

\* ------------------------------------------------------------------ bounds
\* Most lines the device may have queued (in flight or buffered) at a time.
MaxRx == 2

\* ------------------------------------------------------- program constants
\* serial.Serial(..., timeout=1, ...) and the restore in calibrate / start.
DefaultTimeout == 1
\* self.__com_port.timeout = 10 in calibrate / start.
LongTimeout == 10
\* range(6) in stats: the leading columns converted with float().
StatsNumericCols == 6

\* ---------------------------------------------------------- Python strings
Digits == {"0", "1", "2", "3", "4", "5", "6", "7", "8", "9"}

DigitVal(c) ==
    CASE c = "0" -> 0 [] c = "1" -> 1 [] c = "2" -> 2 [] c = "3" -> 3
      [] c = "4" -> 4 [] c = "5" -> 5 [] c = "6" -> 6 [] c = "7" -> 7
      [] c = "8" -> 8 [] c = "9" -> 9

\* Python's  sub in s  on strings.
Contains(sub, s) ==
    \E i \in 1..(Len(s) - Len(sub) + 1) : SubSeq(s, i, i + Len(sub) - 1) = sub

\* Index of the first sep in s, 0 when there is none.
FirstIndex(sep, s) ==
    IF \E i \in 1..Len(s) : s[i] = sep
    THEN CHOOSE i \in 1..Len(s) : s[i] = sep /\ \A j \in 1..(i - 1) : s[j] # sep
    ELSE 0

\* Python's  s.split(sep)  for a one-character sep: never an empty list.
RECURSIVE Split(_, _)
Split(s, sep) ==
    LET i == FirstIndex(sep, s)
    IN  IF i = 0 THEN <<s>>
        ELSE <<SubSeq(s, 1, i - 1)>> \o Split(SubSeq(s, i + 1, Len(s)), sep)

AllDigits(s) == \A i \in 1..Len(s) : s[i] \in Digits

\* Value of a sequence of digits.
RECURSIVE DigitsVal(_)
DigitsVal(s) ==
    IF s = <<>> THEN 0
    ELSE 10 * DigitsVal(SubSeq(s, 1, Len(s) - 1)) + DigitVal(s[Len(s)])

HasSign(s) == Len(s) > 0 /\ s[1] \in {"+", "-"}
Unsigned(s) == IF HasSign(s) THEN Tail(s) ELSE s
SignOf(s) == IF Len(s) > 0 /\ s[1] = "-" THEN -1 ELSE 1

\* int(s) succeeds: an optional sign and at least one digit.  (Surrounding
\* white space and underscores, which int() also accepts, are not produced
\* by the lines of this model.)
IsIntLit(s) == Len(Unsigned(s)) > 0 /\ AllDigits(Unsigned(s))
IntOf(s) == SignOf(s) * DigitsVal(Unsigned(s))

\* float(s) succeeds: an optional sign, digits with at most one point and at
\* least one digit.  (Exponents, inf and nan are not produced by the lines
\* of this model.)
IsFloatLit(s) ==
    LET u == Unsigned(s)
        p == FirstIndex(".", u)
        ip == IF p = 0 THEN u ELSE SubSeq(u, 1, p - 1)
        fp == IF p = 0 THEN <<>> ELSE SubSeq(u, p + 1, Len(u))
    IN  /\ AllDigits(ip) /\ AllDigits(fp)
        /\ Len(ip) + Len(fp) > 0

\* Drops the trailing zeros of a fraction: 1.50 and 1.5 are the same float.
RECURSIVE StripZeros(_)
StripZeros(fp) ==
    IF fp # <<>> /\ fp[Len(fp)] = "0" THEN StripZeros(SubSeq(fp, 1, Len(fp) - 1))
    ELSE fp

\* float(s) as a decimal: mantissa m and e fraction digits, value m / 10^e.
FloatOf(s) ==
    LET u == Unsigned(s)
        p == FirstIndex(".", u)
        ip == IF p = 0 THEN u ELSE SubSeq(u, 1, p - 1)
        fp == StripZeros(IF p = 0 THEN <<>> ELSE SubSeq(u, p + 1, Len(u)))
    IN  [m |-> SignOf(s) * DigitsVal(ip \o fp), e |-> Len(fp)]

\* ----------------------------------------------------------- Python values
\* t is the Python type; the fields a type does not use are left at a
\* default so that any two values can be compared.
PyStr(s) == [t |-> "str", n |-> 0, e |-> 0, s |-> s, items |-> <<>>]
PyInt(n) == [t |-> "int", n |-> n, e |-> 0, s |-> <<>>, items |-> <<>>]
PyFloat(m, e) == [t |-> "float", n |-> m, e |-> e, s |-> <<>>, items |-> <<>>]
PyList(items) == [t |-> "list", n |-> 0, e |-> 0, s |-> <<>>, items |-> items]
PyNone == [t |-> "None", n |-> 0, e |-> 0, s |-> <<>>, items |-> <<>>]

\* What a call did: it returned (val, flag), or it raised exc.
Returned(val, flag) == [kind |-> "return", val |-> val, flag |-> flag, exc |-> ""]
Raised(exc) == [kind |-> "raise", val |-> PyNone, flag |-> FALSE, exc |-> exc]
NoCall == [kind |-> "none", val |-> PyNone, flag |-> FALSE, exc |-> ""]

\* int(x) / float(x) on a str: the converted value, or ValueError.
ConvInt_default_zero(s) ==
    IF IsIntLit(s) THEN Returned(PyInt(IntOf(s)), TRUE) ELSE Returned(PyInt(0), TRUE)

ConvInt(s) == IF IsIntLit(s) THEN Returned(PyInt(IntOf(s)), TRUE) ELSE Raised("ValueError")
ConvFloat(s) ==
    IF IsFloatLit(s) THEN Returned(PyFloat(FloatOf(s).m, FloatOf(s).e), TRUE)
    ELSE Raised("ValueError")

\*  lst[pos] = int(lst[pos])  /  lst[pos] = float(lst[pos])  for each <<pos, type>>
\* of schema in turn (pos counts from 0, as in the source): the list after
\* the assignments, or the first exception (IndexError for a missing
\* position, ValueError for a malformed field).
RECURSIVE ConvertFields(_, _)
ConvertFields(lst, schema) ==
    IF schema = <<>> THEN Returned(PyList(lst), TRUE)
    ELSE LET pos == schema[1][1] + 1
             typ == schema[1][2]
         IN  IF pos > Len(lst) THEN Raised("IndexError")
             ELSE LET c == IF typ = "int" THEN ConvInt(lst[pos].s)
                           ELSE ConvFloat(lst[pos].s)
                  IN  IF c.kind = "raise" THEN c
                      ELSE ConvertFields([lst EXCEPT ![pos] = c.val], Tail(schema))

\* list(reply.split(",")) as a list of str.
SplitFields(reply) ==
    LET f == Split(reply, ",") IN [i \in 1..Len(f) |-> PyStr(f[i])]

\* ------------------------------------------------------------- reply lines
\* The lines the device may send, without their terminator.
\* A silent period of one read timeout: read_until returns no bytes.
L_EMPTY == <<>>
L_OK == <<"O", "K">>
L_ERR == <<"E", "R", "R", " ", "1">>
L_START == <<"S", "T", "A", "R", "T">>
L_INT == <<"1", "2">>
L_FLOAT == <<"1", ".", "5">>
L_SETTINGS ==
    <<"S", "N", "1", "2", "3", ",", "2", ".", "2", ".", "4", ",", "6", "0", ",", "0", ",", "1", ".", "5", ",", "5", ",", "A", "U", "T", "O", ",", "3", "0", ",", "4", ",", "4">>
L_ROW ==
    <<"1", "2", ",", "0", ".", "5", ",", "1", "0", ",", "0", ".", "4", ",", "3", ",", "0", ".", "1", ",", "E", ",", "S", ",", "O">>
L_ROW2 ==
    <<"-", "4", ",", "0", ".", "2", ",", "9", ",", "0", ".", "3", ",", "3", "0", ",", "1", ".", "2", ",", ",", ",">>
\* A table row whose flag field carries the error marker.
L_ERRROW == <<"1", ",", "2", ",", "3", ",", "4", ",", "5", ",", "6", ",", "E", "R", "R">>

Lines ==
    {L_EMPTY, L_OK, L_ERR, L_START, L_INT, L_FLOAT, L_SETTINGS, L_ROW, L_ROW2,
     L_ERRROW}

\* The text of the mode-error sentinel, "ERR Not in API mode".
ERR_NOT_IN_API ==
    <<"E", "R", "R", " ", "N", "o", "t", " ", "i", "n", " ", "A", "P", "I", " ", "m", "o", "d", "e">>
\* The error marker the replies are searched for.
ERR == <<"E", "R", "R">>

\* --------------------------------------------------- arguments of the calls
AudioPorts == {"AUTO", "EXT"}
TriggerLevels == {4}
ExtendedModes == {"", "ON"}
FrameRates == {24}
MaskLens == {5}
Offsets == {-3}
Distances == {2}
Messages == {"HELLO"}

\* -------------------------------------------------------------------- state
VARIABLES
    in_API,     \* self.__in_API
    com_port,   \* self.__com_port: "unset" (no attribute yet), "open", "closed"
    timeout,    \* self.__com_port.timeout (0 while there is no handle)
    rx,         \* lines the device has sent and no read has consumed, oldest first
    history,    \* "new", then "entered" after a first call that is enter_API,
                \* "enter_exit" after an exit_API right behind it, else "later"
    last_op,    \* the public method called last ("none" once the device moved)
    result,     \* what that call returned or raised
    io,         \* the transport operations that call performed, in order
    pc,         \* where a call followed read by read stands: "idle" between
                \* calls, else "reply", "wait_first", "wait_loop", "stats_loop"
    read_line   \* the local  reply / read_line  of that call: the line last read

vars == <<in_API, com_port, timeout, rx, history, last_op, result, io, pc, read_line>>

\* One transport operation of a call: ev is "open", "open_failed",
\* "reset_input_buffer", "write" (data: the text written), "read" (line: the
\* device's line it consumed, L_EMPTY for a timeout), "timeout" (n: the new
\* read timeout), "close", or "in_API" for the assignment of n (0: False) to
\* self.__in_API where a call makes it between two transport operations.
Ev(ev, data, n, line) == [ev |-> ev, data |-> data, n |-> n, line |-> line]

\* The running state of a call: the unread device lines q, the transport
\* operations so far, the last reply read, the result of the last wait and
\* the read timeout of the handle.
Ctx0 == [q |-> rx, io |-> <<>>, reply |-> <<>>, ok |-> FALSE, timeout |-> timeout]

\* --------------------------------------------------------- private helpers
\* __parse_line: decode, then  line_data.replace('\r', '').
parse_line(line_data) == SelectSeq(line_data, LAMBDA ch : ch # "\r")

\* self.__com_port.read_until(b'\r') on the unread lines q: the oldest line
\* with its terminator, or no bytes when the timeout passes first (no line
\* left, or the device stays silent: L_EMPTY).
read_until(q) == IF q = <<>> \/ Head(q) = L_EMPTY THEN <<>> ELSE Append(Head(q), "\r")
Unread(q) == IF q = <<>> THEN <<>> ELSE Tail(q)
Consumed(q) == IF q = <<>> THEN L_EMPTY ELSE Head(q)

\* __get_reply
get_reply(c) ==
    [c EXCEPT !.reply = parse_line(read_until(c.q)),
              !.q = Unread(c.q),
              !.io = Append(@, Ev("read", "", 0, Consumed(c.q)))]

\* __send_command that leaves out the carriage return.
send_command_unterminated(c, string) ==
    [c EXCEPT !.io = Append(@, Ev("write", string, 0, <<>>))]

\* __send_command: one write of the command and a carriage return.
send_command(c, string) ==
    [c EXCEPT !.io = Append(@, Ev("write", string \o "\r", 0, <<>>))]

\* The  while string not in reply  loop of __wait_for_string.
RECURSIVE wait_loop(_, _)
wait_loop(c, string) ==
    IF Contains(string, c.reply) THEN [c EXCEPT !.ok = TRUE]
    ELSE LET c1 == get_reply(c)
         IN  IF c1.reply = <<>> THEN [c1 EXCEPT !.ok = FALSE]
             ELSE wait_loop(c1, string)

\* __wait_for_string
wait_for_string(c, string) == wait_loop(get_reply(c), string)

\* __commmand_and_reply
commmand_and_reply(c, cmd_string) == get_reply(send_command(c, cmd_string))

\* self.__com_port.timeout = seconds
set_timeout(c, seconds) ==
    [c EXCEPT !.timeout = seconds, !.io = Append(@, Ev("timeout", "", seconds, <<>>))]

\* self.__com_port.reset_input_buffer(): the lines that have arrived in the
\* input buffer, the oldest arrived of c.q, are dropped.
reset_input_buffer(c, arrived) ==
    [c EXCEPT !.q = SubSeq(c.q, arrived + 1, Len(c.q)),
              !.io = Append(@, Ev("reset_input_buffer", "", 0, <<>>))]

\* return ("ERR Not in API mode", False)
NotInAPI == Returned(PyStr(ERR_NOT_IN_API), FALSE)

\*  if "ERR" not in reply: return (reply, True)  else: return (reply, False)
ErrChecked(reply) == Returned(PyStr(reply), ~Contains(ERR, reply))

\* The end of a call: what it returned, and what it did to the transport.
Commit(op, c, res) ==
    /\ last_op' = op
    /\ result' = res
    /\ io' = c.io
    /\ rx' = c.q
    /\ timeout' = c.timeout
    /\ history' = IF history = "new" /\ op = "enter_API" THEN "entered"
                  ELSE IF history = "entered" /\ op = "exit_API" THEN "enter_exit"
                  ELSE "later"
    /\ UNCHANGED <<pc, read_line>>

\* ------------------------------------------------------------ mode entry/exit
\* __open_port: serial.Serial(...) raises SerialException (opened = FALSE) or
\* yields a new open handle with timeout=1, whose input buffer is then reset.
\* Of the lines the device sent before, arrived are in that buffer by then
\* and the others are still on their way.
open_port(c, opened, arrived) ==
    IF opened
    THEN reset_input_buffer([c EXCEPT !.timeout = DefaultTimeout,
                                      !.io = Append(@, Ev("open", "", DefaultTimeout, <<>>))],
                            arrived)
    ELSE [c EXCEPT !.io = Append(@, Ev("open_failed", "", 0, <<>>))]

enter_API ==
    \E opened \in BOOLEAN, arrived \in 0..Len(rx) :
        IF ~opened
        THEN /\ arrived = 0
             /\ Commit("enter_API", open_port(Ctx0, FALSE, 0), Returned(PyNone, FALSE))
             /\ UNCHANGED <<in_API, com_port>>
        ELSE LET c == wait_for_string(
                          send_command(open_port(Ctx0, TRUE, arrived), "API"), L_OK)
             IN  /\ Commit("enter_API", c, Returned(PyNone, c.ok))
                 /\ com_port' = "open"
                 /\ in_API' = c.ok

\* __close_port
close_port(c) == [c EXCEPT !.io = Append(@, Ev("close", "", 0, <<>>))]

\* self.__in_API = False, between the write and the wait of exit_API.
clear_in_API(c) == [c EXCEPT !.io = Append(@, Ev("in_API", "", 0, <<>>))]

exit_API ==
    IF in_API
    THEN LET c == close_port(wait_for_string(
                      clear_in_API(send_command(Ctx0, "EXIT")), L_OK))
         IN  /\ Commit("exit_API", c, Returned(PyStr(L_OK), c.ok))
             /\ in_API' = FALSE
             /\ com_port' = "closed"
    ELSE /\ Commit("exit_API", Ctx0, NotInAPI)
         /\ UNCHANGED <<in_API, com_port>>

\* ------------------------------------------------------------------ commands
\* The shapes shared by several methods; self.__in_API and the handle are
\* left alone by all of them.
\*   reply = self.__commmand_and_reply(cmd); return (reply, True)
TextQuery(op, cmd) ==
    /\ IF in_API
       THEN LET c == commmand_and_reply(Ctx0, cmd)
            IN  Commit(op, c, Returned(PyStr(c.reply), TRUE))
       ELSE Commit(op, Ctx0, NotInAPI)
    /\ UNCHANGED <<in_API, com_port>>

\*   reply = self.__commmand_and_reply(cmd); then the "ERR" test
CheckedCommand(op, cmd) ==
    /\ IF in_API
       THEN LET c == commmand_and_reply(Ctx0, cmd)
            IN  Commit(op, c, ErrChecked(c.reply))
       ELSE Commit(op, Ctx0, NotInAPI)
    /\ UNCHANGED <<in_API, com_port>>

\*   reply = int(self.__commmand_and_reply(cmd)); return (reply, True)
IntQuery(op, cmd) ==
    /\ IF in_API
       THEN LET c == commmand_and_reply(Ctx0, cmd)
            IN  Commit(op, c, ConvInt(c.reply))
       ELSE Commit(op, Ctx0, NotInAPI)
    /\ UNCHANGED <<in_API, com_port>>

\*   split the reply on commas and convert the fields of schema
TupleQuery(op, cmd, schema, errtest) ==
    /\ IF in_API
       THEN LET c == commmand_and_reply(Ctx0, cmd)
            IN  IF errtest /\ Contains(ERR, c.reply)
                THEN Commit(op, c, Returned(PyStr(c.reply), FALSE))
                ELSE Commit(op, c, ConvertFields(SplitFields(c.reply), schema))
       ELSE Commit(op, Ctx0, NotInAPI)
    /\ UNCHANGED <<in_API, com_port>>

audio_in == TextQuery("audio_in", "AUDIO IN")

\* calibrate that restores the timeout only once the acknowledgment came.
calibrate_restore_on_ok ==
    /\ IF in_API
       THEN LET c1 == wait_for_string(
                          send_command(set_timeout(Ctx0, LongTimeout), "CALIBRATE"), L_OK)
                c2 == IF c1.ok THEN set_timeout(c1, DefaultTimeout) ELSE c1
            IN  Commit("calibrate", c2, Returned(PyStr(L_OK), c1.ok))
       ELSE Commit("calibrate", Ctx0, NotInAPI)
    /\ UNCHANGED <<in_API, com_port>>

calibrate ==
    /\ IF in_API
       THEN LET c1 == wait_for_string(
                          send_command(set_timeout(Ctx0, LongTimeout), "CALIBRATE"), L_OK)
                c2 == set_timeout(c1, DefaultTimeout)
            IN  Commit("calibrate", c2, Returned(PyStr(L_OK), c1.ok))
       ELSE Commit("calibrate", Ctx0, NotInAPI)
    /\ UNCHANGED <<in_API, com_port>>

clear_stats ==
    /\ IF in_API
       THEN LET c == wait_for_string(send_command(Ctx0, "CLEAR STATS"), L_OK)
            IN  Commit("clear_stats", c, Returned(PyStr(L_OK), c.ok))
       ELSE Commit("clear_stats", Ctx0, NotInAPI)
    /\ UNCHANGED <<in_API, com_port>>

custom_splash_1 ==
    \E message \in Messages :
        CheckedCommand("custom_splash_1", "CUSTOM SPLASH 1 \"" \o message \o "\" ")

custom_splash_2 ==
    \E message \in Messages :
        CheckedCommand("custom_splash_2", "CUSTOM SPLASH 2 \"" \o message \o "\" ")

extended_mode == TextQuery("extended_mode", "EXTENDED MODE")

frame_rate == IntQuery("frame_rate", "FRAME RATE")

mask_len == IntQuery("mask_len", "MASK LEN")

offset ==
    /\ IF in_API
       THEN LET c == commmand_and_reply(Ctx0, "OFFSET")
            IN  Commit("offset", c, ConvFloat(c.reply))
       ELSE Commit("offset", Ctx0, NotInAPI)
    /\ UNCHANGED <<in_API, com_port>>

reset_settings ==
    /\ IF in_API
       THEN LET c == commmand_and_reply(Ctx0, "RESET SETTINGS")
            IN  Commit("reset_settings", c, Returned(PyStr(L_OK), TRUE))
       ELSE Commit("reset_settings", Ctx0, NotInAPI)
    /\ UNCHANGED <<in_API, com_port>>

set_audio_in ==
    \E audio_port \in AudioPorts :
        CheckedCommand("set_audio_in", "SET AUDIO IN " \o audio_port)

set_audio_trigger_level ==
    \E trigger_level \in TriggerLevels :
        CheckedCommand("set_audio_trigger_level",
                       "SET AUDIO TRIGGER LEVEL " \o ToString(trigger_level))

ser_extended_mode ==
    \E mode \in ExtendedModes :
        CheckedCommand("ser_extended_mode", "SET EXTENDED MODE " \o mode)

set_frame_rate ==
    \E frames \in FrameRates :
        CheckedCommand("set_frame_rate", "SET FRAME RATE " \o ToString(frames))

set_mask_len ==
    \E mask \in MaskLens :
        CheckedCommand("set_mask_len", "SET MASK LEN " \o ToString(mask))

set_offset ==
    \E off \in Offsets :
        CheckedCommand("set_offset", "SET OFFSET " \o ToString(off))

set_speaker_dist ==
    \E distance \in Distances :
        CheckedCommand("set_speaker_dist", "SET SPEAKER DIST " \o ToString(distance))

set_video_trigger_level ==
    \E trigger_level \in TriggerLevels :
        CheckedCommand("set_video_trigger_level",
                       "SET VIDEO TRIGGER LEVEL " \o ToString(trigger_level))

\* The conversions of positions 3 and 4 exchanged.
SettingsSchemaSwapped ==
    << <<2, "int">>, <<3, "float">>, <<4, "int">>, <<5, "int">>, <<7, "int">>,
       <<8, "int">>, <<9, "int">> >>

\* settings_data[2], [3], [5], [7], [8], [9] = int(...), [4] = float(...)
SettingsSchema ==
    << <<2, "int">>, <<3, "int">>, <<4, "float">>, <<5, "int">>, <<7, "int">>,
       <<8, "int">>, <<9, "int">> >>

settings == TupleQuery("settings", "SETTINGS", SettingsSchema, FALSE)

speaker_dist ==
    TupleQuery("speaker_dist", "SPEAKER DIST",
               << <<0, "float">>, <<1, "int">>, <<2, "int">> >>, FALSE)

support_code == TextQuery("support_code", "SUPPORT CODE")

start ==
    /\ IF in_API
       THEN LET c1 == commmand_and_reply(set_timeout(Ctx0, LongTimeout), "START")
                c2 == set_timeout(wait_for_string(c1, L_START), DefaultTimeout)
            IN  Commit("start", c2, ErrChecked(c1.reply))
       ELSE Commit("start", Ctx0, NotInAPI)
    /\ UNCHANGED <<in_API, com_port>>

start_nocal ==
    /\ IF in_API
       THEN LET c1 == commmand_and_reply(Ctx0, "START NOCAL")
                c2 == wait_for_string(c1, L_START)
            IN  Commit("start_nocal", c2, ErrChecked(c1.reply))
       ELSE Commit("start_nocal", Ctx0, NotInAPI)
    /\ UNCHANGED <<in_API, com_port>>

\*  while read_line: stats_list.append(read_line.split(",")); read_line = ...
RECURSIVE stats_read(_, _)
stats_read(c, stats_list) ==
    IF c.reply = <<>> THEN [c |-> c, stats_list |-> stats_list]
    ELSE stats_read(get_reply(c), Append(stats_list, SplitFields(c.reply)))

\* range(5) for range(6): the sixth column is left as text.
StatsSchemaFive == [col \in 1..(StatsNumericCols - 1) |-> <<col - 1, "float">>]

\*  for col in range(6): row[col] = float(row[col])
StatsSchema == [col \in 1..StatsNumericCols |-> <<col - 1, "float">>]

\*  for row in stats_list: ...   the converted table, or the first exception.
RECURSIVE stats_convert(_)
stats_convert(stats_list) ==
    IF stats_list = <<>> THEN Returned(PyList(<<>>), TRUE)
    ELSE LET row == ConvertFields(Head(stats_list), StatsSchema)
         IN  IF row.kind = "raise" THEN row
             ELSE LET rest == stats_convert(Tail(stats_list))
                  IN  IF rest.kind = "raise" THEN rest
                      ELSE Returned(PyList(<<row.val>> \o rest.val.items), TRUE)

stats ==
    /\ IF in_API
       THEN LET c == commmand_and_reply(Ctx0, "STATS")
            IN  IF ~Contains(ERR, c.reply)
                THEN LET r == stats_read(c, <<>>)
                     IN  Commit("stats", r.c, stats_convert(r.stats_list))
                ELSE Commit("stats", c, Returned(PyStr(c.reply), FALSE))
       ELSE Commit("stats", Ctx0, NotInAPI)
    /\ UNCHANGED <<in_API, com_port>>

\* avg_stats[0] = int(...), avg_stats[1] = float(...); the same for span.
PairSchema == << <<0, "int">>, <<1, "float">> >>

stats_avg == TupleQuery("stats_avg", "STATS AVG", PairSchema, TRUE)

stats_count == IntQuery("stats_count", "STATS COUNT")

stats_span == TupleQuery("stats_span", "STATS SPAN", PairSchema, TRUE)

stats_trim == CheckedCommand("stats_trim", "STATS TRIM")

\* stop that also drops out of remote mode on a failed acknowledgment.
stop_leaves_API ==
    /\ IF in_API
       THEN LET c == wait_for_string(send_command(Ctx0, "STOP"), L_OK)
            IN  /\ Commit("stop", c, Returned(PyStr(L_OK), TRUE))
                /\ in_API' = c.ok
       ELSE Commit("stop", Ctx0, NotInAPI) /\ UNCHANGED in_API
    /\ UNCHANGED com_port

stop ==
    /\ IF in_API
       THEN LET c == wait_for_string(send_command(Ctx0, "STOP"), L_OK)
            IN  Commit("stop", c, Returned(PyStr(L_OK), TRUE))
       ELSE Commit("stop", Ctx0, NotInAPI)
    /\ UNCHANGED <<in_API, com_port>>

\* get_reading that converts whatever it read, an empty read too.
get_reading_always_int ==
    /\ IF in_API
       THEN LET c == get_reply(Ctx0)
            IN  Commit("get_reading", c, ConvInt(c.reply))
       ELSE Commit("get_reading", Ctx0, NotInAPI)
    /\ UNCHANGED <<in_API, com_port>>

\* get_reading without its  if self.__in_API  guard.
get_reading_unguarded ==
    /\ LET c == get_reply(Ctx0)
       IN  IF c.reply # <<>>
           THEN Commit("get_reading", c, ConvInt(c.reply))
           ELSE Commit("get_reading", c, Returned(PyNone, FALSE))
    /\ UNCHANGED <<in_API, com_port>>

get_reading ==
    /\ IF in_API
       THEN LET c == get_reply(Ctx0)
            IN  IF c.reply # <<>>
                THEN Commit("get_reading", c, ConvInt(c.reply))
                ELSE Commit("get_reading", c, Returned(PyNone, FALSE))
       ELSE Commit("get_reading", Ctx0, NotInAPI)
    /\ UNCHANGED <<in_API, com_port>>

\* ---------------------------------------------------------------- the device
\* The device sends one more line (or stays silent for one read timeout).
\* The caller has consumed the last call's result by then.
DeviceSend ==
    \E line \in Lines :
        /\ Len(rx) < MaxRx
        /\ rx' = Append(rx, line)
        /\ last_op' = "none" /\ result' = NoCall /\ io' = <<>>
        /\ UNCHANGED <<in_API, com_port, timeout, history, pc, read_line>>

\* ------------------------------------------------------------ specification
\* __init__: no handle yet, not in API mode.
Init ==
    /\ in_API = FALSE
    /\ com_port = "unset"
    /\ timeout = 0
    /\ rx = <<>>
    /\ history = "new"
    /\ last_op = "none"
    /\ result = NoCall
    /\ io = <<>>
    /\ pc = "idle"
    /\ read_line = <<>>

Next ==
    \/ enter_API
    \/ exit_API
    \/ audio_in
    \/ calibrate
    \/ clear_stats
    \/ custom_splash_1
    \/ custom_splash_2
    \/ extended_mode
    \/ frame_rate
    \/ mask_len
    \/ offset
    \/ reset_settings
    \/ set_audio_in
    \/ set_audio_trigger_level
    \/ ser_extended_mode
    \/ set_frame_rate
    \/ set_mask_len
    \/ set_offset
    \/ set_speaker_dist
    \/ set_video_trigger_level
    \/ settings
    \/ speaker_dist
    \/ support_code
    \/ start
    \/ start_nocal
    \/ stats
    \/ stats_avg
    \/ stats_count
    \/ stats_span
    \/ stats_trim
    \/ stop
    \/ get_reading
    \/ DeviceSend

Spec == Init /\ [][Next]_vars

\* ------------------------------------------------- the calls, read by read
\* The same methods with one step per blocking read, so that the device may
\* send between two reads of one call.  Only the control flow is followed:
\* in_API, the port, the timeout, the unread lines and the local reply;
\* the returned values are those of the actions above.

\* The methods that end in __wait_for_string, and the token each awaits.
WaitOps == {"enter_API", "exit_API", "calibrate", "clear_stats", "stop",
            "start", "start_nocal"}
Token(op) == IF op \in {"start", "start_nocal"} THEN L_START ELSE L_OK

\* The methods that set the long timeout for the length of the call.
LongOps == {"calibrate", "start"}

\* Every public method.
PublicOps ==
    WaitOps \cup
    {"audio_in", "custom_splash_1", "custom_splash_2", "extended_mode",
     "frame_rate", "mask_len", "offset", "reset_settings", "set_audio_in",
     "set_audio_trigger_level", "ser_extended_mode", "set_frame_rate",
     "set_mask_len", "set_offset", "set_speaker_dist",
     "set_video_trigger_level", "settings", "speaker_dist", "support_code",
     "stats", "stats_avg", "stats_count", "stats_span", "stats_trim",
     "get_reading"}

\* The first blocking read of a method: that of __wait_for_string, or that of
\* __get_reply for start, start_nocal and the single-reply methods.
FirstRead(op) ==
    IF op \in WaitOps \ {"start", "start_nocal"} THEN "wait_first" ELSE "reply"

\* The lines that tell the loops apart: with "OK", with "START", with neither.
LiveLines == {L_OK, L_START, L_ERR}

\* One blocking read of the running call.
LiveRead ==
    /\ read_line' = get_reply(Ctx0).reply
    /\ rx' = get_reply(Ctx0).q

\* The return of the running call: enter_API sets in_API from the wait,
\* exit_API closes the port, calibrate and start restore the timeout.
LiveReturn(ok) ==
    /\ pc' = "idle"
    /\ in_API' = IF last_op = "enter_API" THEN ok ELSE in_API
    /\ com_port' = IF last_op = "exit_API" THEN "closed" ELSE com_port
    /\ timeout' = IF last_op \in LongOps THEN DefaultTimeout ELSE timeout

\* A method is called and runs up to its first blocking read, or returns
\* at once: enter_API whose open fails, any other method outside API mode.
LiveCall ==
    \E op \in PublicOps, opened \in BOOLEAN, arrived \in 0..Len(rx) :
        /\ pc = "idle"
        /\ last_op' = op
        /\ IF op = "enter_API"
           THEN IF opened
                THEN /\ com_port' = "open"
                     /\ timeout' = open_port(Ctx0, TRUE, arrived).timeout
                     /\ rx' = open_port(Ctx0, TRUE, arrived).q
                     /\ pc' = FirstRead(op)
                     /\ UNCHANGED in_API
                ELSE /\ arrived = 0
                     /\ UNCHANGED <<in_API, com_port, timeout, rx, pc>>
           ELSE /\ opened /\ arrived = 0
                /\ IF in_API
                   THEN /\ pc' = FirstRead(op)
                        /\ in_API' = (op # "exit_API")
                        /\ timeout' = IF op \in LongOps THEN LongTimeout ELSE timeout
                   ELSE UNCHANGED <<in_API, timeout, pc>>
                /\ UNCHANGED <<com_port, rx>>
        /\ UNCHANGED <<history, result, io, read_line>>

\* reply = self.__get_reply(): start and start_nocal go on to the wait, stats
\* to its loop unless the line has "ERR", every other method returns.
LiveReply ==
    /\ pc = "reply"
    /\ LiveRead
    /\ IF last_op \in WaitOps
       THEN pc' = "wait_first" /\ UNCHANGED <<in_API, com_port, timeout>>
       ELSE IF last_op = "stats" /\ ~Contains(ERR, read_line')
       THEN pc' = "stats_loop" /\ UNCHANGED <<in_API, com_port, timeout>>
       ELSE LiveReturn(TRUE)
    /\ UNCHANGED <<history, last_op, result, io>>

\* The read of __wait_for_string ahead of its loop.
LiveWaitFirst ==
    /\ pc = "wait_first"
    /\ LiveRead
    /\ pc' = "wait_loop"
    /\ UNCHANGED <<in_API, com_port, timeout, history, last_op, result, io>>

\* while string not in reply: read; if not reply: return (False)
LiveWaitRead ==
    /\ pc = "wait_loop"
    /\ ~Contains(Token(last_op), read_line)
    /\ LiveRead
    /\ IF read_line' = <<>>
       THEN LiveReturn(FALSE)
       ELSE pc' = "wait_loop" /\ UNCHANGED <<in_API, com_port, timeout>>
    /\ UNCHANGED <<history, last_op, result, io>>

\* The loop test fails, string is in reply: return (True)
LiveWaitDone ==
    /\ pc = "wait_loop"
    /\ Contains(Token(last_op), read_line)
    /\ LiveReturn(TRUE)
    /\ UNCHANGED <<rx, history, last_op, result, io, read_line>>

\* while read_line: append the row; read_line = self.__get_reply()
LiveStatsRead ==
    /\ pc = "stats_loop"
    /\ read_line # <<>>
    /\ LiveRead
    /\ UNCHANGED <<in_API, com_port, timeout, history, last_op, result, io, pc>>

\* The loop test fails on an empty read_line: convert and return.
LiveStatsDone ==
    /\ pc = "stats_loop"
    /\ read_line = <<>>
    /\ LiveReturn(TRUE)
    /\ UNCHANGED <<rx, history, last_op, result, io, read_line>>

\* The device sends a line, between calls or between two reads of a call.
LiveDeviceSend ==
    \E line \in LiveLines :
        /\ Len(rx) < MaxRx
        /\ rx' = Append(rx, line)
        /\ UNCHANGED <<in_API, com_port, timeout, history, last_op, result, io,
                       pc, read_line>>

\* The steps of a running call; each is one read that returns, with a line
\* or empty at the timeout, or a loop test.
LiveStep ==
    \/ LiveReply
    \/ LiveWaitFirst
    \/ LiveWaitRead
    \/ LiveWaitDone
    \/ LiveStatsRead
    \/ LiveStatsDone

NextLive ==
    \/ LiveCall
    \/ LiveStep
    \/ LiveDeviceSend

\* A call that has begun keeps running: every blocking read returns.
SpecLive == Init /\ [][NextLive]_vars /\ WF_vars(LiveStep)

\* ------------------------------------------------------------------- claims
\* The lines the reads of the last call consumed, in order.
ReadLines == LET r == SelectSeq(io, LAMBDA e : e.ev = "read")
             IN  [i \in 1..Len(r) |-> r[i].line]
Writes == SelectSeq(io, LAMBDA e : e.ev = "write")
TimeoutChanges == SelectSeq(io, LAMBDA e : e.ev = "timeout")
ModeOps == {"enter_API", "exit_API"}
\* The last call ran its in-API branch (every such branch touches the transport).
RanInAPI == last_op \notin {"none", "enter_API"} /\ io # <<>>

\* C1: every public operation other than enter_API and exit_API, called
\* while in_API is false, performs no transport I/O (no write, no read, no
\* timeout change), leaves in_API false and every other field of the session
\* as it was, and returns exactly ("ERR Not in API mode", False).
C1_ModeErrorNoIO ==
    [][(~in_API /\ last_op' \notin ModeOps \cup {"none"})
         => /\ io' = <<>>
            /\ ~in_API'
            /\ result' = Returned(PyStr(ERR_NOT_IN_API), FALSE)
            /\ <<com_port, timeout, rx>>' = <<com_port, timeout, rx>>]_vars

\* C1 witness: stats returned the mode error after an exit_API closed the
\* port, with device lines waiting that it did not read.
C1_Witness ==
    /\ last_op = "stats" /\ ~in_API /\ com_port = "closed"
    /\ rx # <<>> /\ io = <<>>
    /\ result.val.s = ERR_NOT_IN_API /\ ~result.flag

\* C2: from a fresh session, enter_API followed at once by exit_API leaves
\* the transport closed and in_API false, whatever the two calls met.
C2_EnterExitCloses ==
    (history = "enter_exit" /\ last_op = "exit_API")
        => (com_port # "open" /\ ~in_API)

\* C3: between public operations the transport handle is open if and only
\* if in_API is true.
C3_OpenIffInAPI == (com_port = "open") <=> in_API

\* C4: for the status-only commands (clear_stats, reset_settings, stats_trim,
\* stop) called in remote mode: a reply "OK" gives a success flag, and a
\* reply containing "ERR" gives a failure flag together with exactly that
\* reply text.
C4_StatusOnly ==
    (RanInAPI /\ last_op \in {"clear_stats", "reset_settings", "stats_trim", "stop"})
        => /\ result.kind = "return"
           /\ ReadLines[1] = L_OK => result.flag
           /\ Contains(ERR, ReadLines[1])
                => (~result.flag /\ result.val = PyStr(ReadLines[1]))

\* C5: the read timeout is 1 whenever no call is running; calibrate and start
\* in remote mode set it to 10 first and back to 1 last, whether or not the
\* acknowledgment came; no other operation changes it.
C5_TimeoutRestored ==
    /\ com_port # "unset" => timeout = 1
    /\ (RanInAPI /\ last_op \in {"calibrate", "start"})
         => /\ Len(TimeoutChanges) = 2
            /\ io[1].ev = "timeout" /\ io[1].n = 10
            /\ io[Len(io)].ev = "timeout" /\ io[Len(io)].n = 1
    /\ last_op \notin {"calibrate", "start"} => TimeoutChanges = <<>>

\* C5 witness: a calibrate that widened the timeout and whose wait for the
\* acknowledgment timed out.
C5_Witness ==
    /\ RanInAPI /\ last_op = "calibrate" /\ ~result.flag
    /\ io[1].ev = "timeout" /\ io[1].n = 10 /\ timeout = 1

\* The rows of a table reply: the lines of q before its first empty line
\* (a device that has nothing more to send reads as an empty line as well).
RECURSIVE RowsBeforeEmpty(_)
RowsBeforeEmpty(q) ==
    IF q = <<>> \/ Head(q) = L_EMPTY THEN <<>>
    ELSE <<Head(q)>> \o RowsBeforeEmpty(Tail(q))

\* A row of the STATS table: no error marker, at least six fields, the
\* first six of them numerals.
WellFormedRow(line) ==
    LET f == Split(line, ",")
    IN  /\ ~Contains(ERR, line)
        /\ Len(f) >= 6
        /\ \A i \in 1..6 : IsFloatLit(f[i])

\* What stats is to return for a row: six numbers, then the flags as text.
ExpectedRow(line) ==
    CASE line = L_ROW ->
           <<PyFloat(12, 0), PyFloat(5, 1), PyFloat(10, 0), PyFloat(4, 1),
             PyFloat(3, 0), PyFloat(1, 1),
             PyStr(<<"E">>), PyStr(<<"S">>), PyStr(<<"O">>)>>
      [] line = L_ROW2 ->
           <<PyFloat(-4, 0), PyFloat(2, 1), PyFloat(9, 0), PyFloat(3, 1),
             PyFloat(30, 0), PyFloat(12, 1), PyStr(<<>>), PyStr(<<>>), PyStr(<<>>)>>
      [] OTHER ->
           LET f == Split(line, ",")
           IN  [i \in 1..Len(f) |->
                   IF i <= 6 THEN PyFloat(FloatOf(f[i]).m, FloatOf(f[i]).e)
                   ELSE PyStr(f[i])]

\* C6: stats in remote mode, when the device sends n >= 0 table rows and
\* then an empty line, returns a success flag and exactly those n rows in
\* arrival order, the first six fields of each as numbers and the others as
\* text, after n + 1 reads (it stops at the empty line); when the first line
\* contains "ERR" it returns a failure flag and no rows.
C6_StatsTable ==
    [][(in_API /\ last_op' = "stats")
         => LET rows == RowsBeforeEmpty(rx)
                n == Len(rows)
            IN  /\ (\A i \in 1..n : WellFormedRow(rows[i]))
                     => /\ result' = Returned(
                               PyList([i \in 1..n |-> PyList(ExpectedRow(rows[i]))]), TRUE)
                        /\ Len(ReadLines') = n + 1
                        /\ Len(Writes') = 1
                        /\ rx' = SubSeq(rx, n + 2, Len(rx))
                /\ Contains(ERR, Consumed(rx))
                     => /\ result'.kind = "return" /\ ~result'.flag
                        /\ result'.val.t # "list" /\ result'.val.items = <<>>
                        /\ Len(ReadLines') = 1]_vars

\* C6 witness: stats returned two rows, read in the order the device sent
\* them, and stopped at the empty read behind them.
C6_Witness ==
    /\ last_op = "stats" /\ result.kind = "return" /\ result.flag
    /\ ReadLines = <<L_ROW2, L_ROW, L_EMPTY>>
    /\ Len(result.val.items) = 2
    /\ result.val.items[1].items[1] = PyFloat(-4, 0)

\* C7: in stats, a line containing "ERR" at any position of the table reply
\* (the first line, or behind one or more table rows) ends the read at that
\* line and makes stats return a failure flag and no rows; an error-marked
\* line is never returned as a row.
C7_StatsErrAnywhere ==
    (RanInAPI /\ last_op = "stats"
       /\ \E k \in 1..Len(ReadLines) :
              /\ Contains(ERR, ReadLines[k])
              /\ \A i \in 1..(k - 1) : WellFormedRow(ReadLines[i]))
        => /\ result.kind = "return" /\ ~result.flag
           /\ result.val.t # "list"
           /\ \A i \in 1..Len(ReadLines) :
                  Contains(ERR, ReadLines[i]) => i = Len(ReadLines)

\* C8: get_reading in remote mode performs exactly one read and no write;
\* on an empty read it returns (None, False), raises nothing, and leaves
\* in_API, the handle and the read timeout as they were.
C8_GetReadingEmpty ==
    [][(in_API /\ last_op' = "get_reading")
         => /\ Len(io') = 1 /\ io'[1].ev = "read"
            /\ Consumed(rx) = L_EMPTY
                 => /\ result' = Returned(PyNone, FALSE)
                    /\ in_API' /\ com_port' = "open" /\ com_port = "open"
                    /\ timeout' = timeout]_vars

\* C8 witness: a get_reading in remote mode whose read timed out.
C8_Witness ==
    /\ last_op = "get_reading" /\ in_API /\ com_port = "open"
    /\ ReadLines = <<L_EMPTY>> /\ result.val.t = "None" /\ ~result.flag

\* The reply has exactly 10 fields, integers at positions 2, 3, 5, 7, 8, 9
\* and a real number at position 4 (positions counted from 0).
WellFormedSettings(line) ==
    LET f == Split(line, ",")
    IN  /\ Len(f) = 10
        /\ \A i \in {3, 4, 6, 8, 9, 10} : IsIntLit(f[i])
        /\ IsFloatLit(f[5])

\* C9: settings in remote mode, for a reply of 10 well-formed fields,
\* returns a success flag and the 10 fields in order, positions 2, 3, 5, 7,
\* 8, 9 as integers, position 4 as a real number, positions 0, 1, 6 as the
\* text of the reply; "SN123,2.2.4,60,0,1.5,5,AUTO,30,4,4" gives SN123,
\* 2.2.4, 60, 0, 1.5, 5, AUTO, 30, 4, 4.
C9_Settings ==
    (RanInAPI /\ last_op = "settings" /\ WellFormedSettings(ReadLines[1]))
        => LET f == Split(ReadLines[1], ",")
               v == result.val.items
           IN  /\ result.kind = "return" /\ result.flag
               /\ result.val.t = "list" /\ Len(v) = 10
               /\ \A i \in {3, 4, 6, 8, 9, 10} : v[i] = PyInt(IntOf(f[i]))
               /\ v[5] = PyFloat(FloatOf(f[5]).m, FloatOf(f[5]).e)
               /\ \A i \in {1, 2, 7} : v[i] = PyStr(f[i])
               /\ ReadLines[1] = L_SETTINGS
                    => v = <<PyStr(<<"S", "N", "1", "2", "3">>),
                             PyStr(<<"2", ".", "2", ".", "4">>),
                             PyInt(60), PyInt(0), PyFloat(15, 1), PyInt(5),
                             PyStr(<<"A", "U", "T", "O">>),
                             PyInt(30), PyInt(4), PyInt(4)>>

\* C9 witness: settings parsed the reply of the example.
C9_Witness ==
    /\ RanInAPI /\ last_op = "settings" /\ ReadLines = <<L_SETTINGS>>
    /\ result.kind = "return" /\ result.flag

\* C10: every operation called in remote mode whose reply line contains
\* "ERR" returns a failure flag together with the reply text verbatim: no
\* success flag, no substituted text, no raised conversion error.
C10_ErrSurfaced ==
    (RanInAPI /\ last_op \notin ModeOps
       /\ ReadLines # <<>> /\ Contains(ERR, ReadLines[1]))
        => /\ result.kind = "return"
           /\ ~result.flag
           /\ result.val = PyStr(ReadLines[1])

\* The commands that wait for an acknowledgment of the device.
AckOps ==
    {"calibrate", "clear_stats", "stop", "start", "start_nocal", "reset_settings",
     "set_audio_in", "set_audio_trigger_level", "ser_extended_mode",
     "set_frame_rate", "set_mask_len", "set_offset", "set_speaker_dist",
     "set_video_trigger_level", "exit_API"}

\* C11: a command that waits for an acknowledgment in remote mode and whose
\* reads yield no data (every read times out empty) returns a failure
\* indicator; get_reading alone answers an empty read with an absent value
\* and no error.
C11_EmptyAckFails ==
    /\ (RanInAPI /\ last_op \in AckOps
          /\ ReadLines # <<>> /\ \A i \in 1..Len(ReadLines) : ReadLines[i] = L_EMPTY)
         => (result.kind = "return" /\ ~result.flag)
    /\ (RanInAPI /\ last_op = "get_reading" /\ ReadLines = <<L_EMPTY>>)
         => result = Returned(PyNone, FALSE)

\* C12: when the port open inside enter_API fails, enter_API returns False,
\* sends no command, leaves in_API false on return and leaves no handle
\* behind; from every state, a session already in remote mode included.
C12_OpenFailure ==
    [][(last_op' = "enter_API" /\ io' # <<>> /\ io'[1].ev = "open_failed")
         => /\ result'.kind = "return" /\ ~result'.flag
            /\ Writes' = <<>>
            /\ ~in_API'
            /\ com_port' = com_port]_vars

Events(kind) == SelectSeq(io, LAMBDA e : e.ev = kind)

\* C13: exit_API in remote mode writes EXIT, sets in_API false before it
\* reads any acknowledgment, waits for "OK", then closes the port, exactly
\* once whether or not the acknowledgment came.  Over any sequence of calls
\* no handle is closed twice or closed without being open, and every handle
\* whose handshake succeeded is closed by the matching exit_API: the session
\* holds one handle only, so such a handle must not be replaced by a newly
\* opened one while it is open.
C13_ExitOrderAndRelease ==
    [][/\ (in_API /\ last_op' = "exit_API")
            => /\ Len(io') >= 4
               /\ io'[1].ev = "write" /\ io'[1].data = "EXIT\r"
               /\ io'[2].ev = "in_API" /\ io'[2].n = 0
               /\ \A i \in 3..(Len(io') - 1) : io'[i].ev = "read"
               /\ io'[Len(io')].ev = "close"
               /\ com_port = "open" /\ com_port' = "closed" /\ ~in_API'
       /\ Events("close")' # <<>> => com_port = "open"
       /\ (Events("open")' # <<>> /\ in_API) => com_port # "open"]_vars

\* A line that ends the scan of enter_API: the acknowledgment, or an empty read.
EndsScan(line) == Contains(L_OK, line) \/ line = L_EMPTY

\* C14: after a successful open enter_API clears the buffered input, writes
\* the API command once, then scans the reply lines in order: it succeeds at
\* the first line containing "OK" and fails at the first empty read,
\* whichever comes first, the very first read included; it returns the
\* value it leaves in in_API.
C14_EnterScan ==
    (last_op = "enter_API" /\ io # <<>> /\ io[1].ev = "open")
        => /\ Len(io) >= 4
           /\ io[2].ev = "reset_input_buffer"
           /\ io[3].ev = "write" /\ io[3].data = "API\r" /\ Len(Writes) = 1
           /\ \A i \in 4..Len(io) : io[i].ev = "read"
           /\ \A i \in 1..(Len(ReadLines) - 1) : ~EndsScan(ReadLines[i])
           /\ EndsScan(ReadLines[Len(ReadLines)])
           /\ result.flag = Contains(L_OK, ReadLines[Len(ReadLines)])
           /\ result.kind = "return" /\ in_API = result.flag

\* The command line each method is to write, with its single terminator.
CommandLines(op) ==
    CASE op = "enter_API" -> {"API\r"}
      [] op = "exit_API" -> {"EXIT\r"}
      [] op = "audio_in" -> {"AUDIO IN\r"}
      [] op = "calibrate" -> {"CALIBRATE\r"}
      [] op = "clear_stats" -> {"CLEAR STATS\r"}
      [] op = "custom_splash_1" -> {"CUSTOM SPLASH 1 \"HELLO\" \r"}
      [] op = "custom_splash_2" -> {"CUSTOM SPLASH 2 \"HELLO\" \r"}
      [] op = "extended_mode" -> {"EXTENDED MODE\r"}
      [] op = "frame_rate" -> {"FRAME RATE\r"}
      [] op = "mask_len" -> {"MASK LEN\r"}
      [] op = "offset" -> {"OFFSET\r"}
      [] op = "reset_settings" -> {"RESET SETTINGS\r"}
      [] op = "set_audio_in" -> {"SET AUDIO IN AUTO\r", "SET AUDIO IN EXT\r"}
      [] op = "set_audio_trigger_level" -> {"SET AUDIO TRIGGER LEVEL 4\r"}
      [] op = "ser_extended_mode" -> {"SET EXTENDED MODE \r", "SET EXTENDED MODE ON\r"}
      [] op = "set_frame_rate" -> {"SET FRAME RATE 24\r"}
      [] op = "set_mask_len" -> {"SET MASK LEN 5\r"}
      [] op = "set_offset" -> {"SET OFFSET -3\r"}
      [] op = "set_speaker_dist" -> {"SET SPEAKER DIST 2\r"}
      [] op = "set_video_trigger_level" -> {"SET VIDEO TRIGGER LEVEL 4\r"}
      [] op = "settings" -> {"SETTINGS\r"}
      [] op = "speaker_dist" -> {"SPEAKER DIST\r"}
      [] op = "support_code" -> {"SUPPORT CODE\r"}
      [] op = "start" -> {"START\r"}
      [] op = "start_nocal" -> {"START NOCAL\r"}
      [] op = "stats" -> {"STATS\r"}
      [] op = "stats_avg" -> {"STATS AVG\r"}
      [] op = "stats_count" -> {"STATS COUNT\r"}
      [] op = "stats_span" -> {"STATS SPAN\r"}
      [] op = "stats_trim" -> {"STATS TRIM\r"}
      [] op = "stop" -> {"STOP\r"}
      [] OTHER -> {}

\* The scalar, tuple, SET and status queries built on __commmand_and_reply.
SingleReplyOps ==
    {"audio_in", "extended_mode", "support_code", "frame_rate", "mask_len",
     "stats_count", "offset", "reset_settings", "custom_splash_1",
     "custom_splash_2", "set_audio_in", "set_audio_trigger_level",
     "ser_extended_mode", "set_frame_rate", "set_mask_len", "set_offset",
     "set_speaker_dist", "set_video_trigger_level", "stats_trim", "settings",
     "speaker_dist", "stats_avg", "stats_span"}

\* The last call wrote its one command line, once, before any of its reads.
OneCommandFirst ==
    /\ Len(Writes) = 1
    /\ Writes[1].data \in CommandLines(last_op)
    /\ \A i, j \in 1..Len(io) : (io[i].ev = "write" /\ io[j].ev = "read") => i < j
    /\ last_op \in SingleReplyOps => Len(ReadLines) = 1

\* C15 as stated: every public operation called in remote mode writes
\* exactly one command line, terminated by one carriage return, before every
\* read it makes; the single-reply operations then read exactly one line.
C15_OneCommandLine ==
    [][(in_API /\ last_op' # "none") => OneCommandFirst']_vars

\* C15 as amended: the same for every operation but get_reading, which
\* writes nothing and reads one line, and an enter_API whose port open
\* fails, which writes and reads nothing.
C15_OneCommandLineButReading ==
    [][(in_API /\ last_op' # "none")
         => IF last_op' = "get_reading"
            THEN Writes' = <<>> /\ Len(ReadLines') = 1
            ELSE IF last_op' = "enter_API" /\ io'[1].ev = "open_failed"
            THEN Writes' = <<>> /\ ReadLines' = <<>>
            ELSE OneCommandFirst']_vars

\* C15 witness: start, called in remote mode, wrote START once, before the
\* two or more lines it read.
C15_Witness ==
    /\ RanInAPI /\ last_op = "start"
    /\ Len(Writes) = 1 /\ Writes[1].data = "START\r"
    /\ Len(ReadLines) >= 2 /\ io[2].ev = "write" /\ io[3].ev = "read"

\* The numeric scalar queries, and the type each converts its reply to.
NumericOps == {"frame_rate", "mask_len", "stats_count", "offset", "get_reading"}

\* The number a reply line denotes for an operation: a singleton, or empty
\* when the line is not a numeral of the operation's type.  frame_rate,
\* mask_len, stats_count and get_reading take integers, offset takes reals.
ExpectedNumber(op, line) ==
    IF line = L_INT
    THEN {IF op = "offset" THEN PyFloat(12, 0) ELSE PyInt(12)}
    ELSE IF line = L_FLOAT /\ op = "offset"
    THEN {PyFloat(15, 1)}
    ELSE {}

TupleOps == {"speaker_dist", "settings", "stats_avg", "stats_span"}
Arity(op) == CASE op = "speaker_dist" -> 3
               [] op = "settings" -> 10
               [] OTHER -> 2

\* C17: a tuple-typed query in remote mode never returns a success flag
\* for a reply whose number of comma-separated fields is not its arity.
C17_ArityChecked ==
    (RanInAPI /\ last_op \in TupleOps /\ Len(ReadLines) = 1
       /\ Len(SplitFields(ReadLines[1])) # Arity(last_op))
        => ~(result.kind = "return" /\ result.flag)

\* C18: start and start_nocal in remote mode return a success flag only if
\* a line containing "START" was read during the call.
C18_StartAcknowledged ==
    (RanInAPI /\ last_op \in {"start", "start_nocal"}
       /\ result.kind = "return" /\ result.flag)
        => \E i \in 1..Len(ReadLines) : Contains(L_START, ReadLines[i])

\* C19: an operation other than enter_API and exit_API that returns a
\* value leaves in_API and the port as they were, whatever was read; in_API
\* becomes true only in enter_API and false only in enter_API or exit_API.
C19_SelfLoop ==
    [][/\ (last_op' \notin ({"none"} \cup ModeOps) /\ result'.kind = "return")
            => (in_API' = in_API /\ com_port' = com_port)
       /\ (~in_API /\ in_API') => last_op' = "enter_API"
       /\ (in_API /\ ~in_API') => last_op' \in ModeOps]_vars

\* C19 witness: stop read only empty lines in remote mode and returned,
\* with the session still in remote mode and the port still open.
C19_Witness ==
    /\ RanInAPI /\ last_op = "stop" /\ result.kind = "return"
    /\ ReadLines # <<>> /\ \A i \in 1..Len(ReadLines) : ReadLines[i] = L_EMPTY
    /\ in_API /\ com_port = "open"

\* C20: every public operation terminates, whatever lines the device
\* sends and whenever it sends them: a call that has begun, and each of
\* whose reads returns, comes back to its caller.
C20_Terminates == (pc # "idle") ~> (pc = "idle")

\* C21: over any sequence of enter_API and exit_API calls the session holds
\* at most one unclosed handle: enter_API opens the port only when the
\* handle it opened before, if any, has been closed.
C21_SingleHandle ==
    [][(last_op' = "enter_API" /\ Events("open")' # <<>>) => com_port # "open"]_vars

\* C22: when the device answers START with one "START" line followed by
\* reading lines, start consumes the acknowledgment alone and leaves every
\* reading unread, and each get_reading then returns the oldest unread
\* reading and consumes only it.
C22_StartKeepsReadings ==
    [][/\ (in_API /\ last_op' = "start" /\ rx # <<>> /\ Head(rx) = L_START
             /\ \A i \in 2..Len(rx) : rx[i] = L_INT)
            => rx' = Tail(rx)
       /\ (in_API /\ last_op' = "get_reading" /\ rx # <<>> /\ Head(rx) = L_INT)
            => (result' = Returned(PyInt(12), TRUE) /\ rx' = Tail(rx))]_vars

====
